---- MODULE Spec2Model ----
(***************************************************************************)
(* The library application's store (users, books, borrowed_books) and the   *)
(* request                                                                 *)
(* handlers that read and write it, one step per SQL statement.  Every     *)
(* handler opens its own sqlite3 connection; a connection's writes stay in *)
(* its open transaction until commit, and one connection at a time may     *)
(* hold the database's write lock.                                         *)
(***************************************************************************)
EXTENDS Integers, FiniteSets, Sequences, TLC

\* Bounds of the model: the borrowed_books rows ever inserted, and the clock.
MaxBorrows == 2
MaxTime == 2

\* The book ids of the model: seed_data inserts SeedIds, add_book the rest.
SeedIds == {1}
BookIds == {1, 2}

\* returned_at TIMESTAMP (nullable): NULL is below every clock value.
NULL == 0

\* The session user ids of the members, and the concurrent request handlers.
Users == {7, 9}
ProcOrder == << "h1", "h2" >>
Procs == {ProcOrder[i] : i \in DOMAIN ProcOrder}

\* Form values for title and author.
Titles == {"Marigold and Ashes"}
Authors == {"Kavya Nair"}

\* The usernames in order of registration after the seeded admin: the user
\* with id u is usernames[u], so the members of Users are among them.
usernames ==
    << "admin", "asha", "bina", "chitra", "dev", "esha", "farid", "gita", "hari" >>

\* The tables of init_db, in the order of their CREATE TABLE statements.
TableOrder == << "users", "books", "borrowed_books" >>
Tables == {TableOrder[i] : i \in DOMAIN TableOrder}

\* seed_data's admin account.
admin_username == "admin"
admin_password == "admin123"

\* bcrypt.hashpw and bcrypt.checkpw, the salt left out.
hash_password(password) == << "bcrypt", password >>
verify_password(password, hashed) == hashed = hash_password(password)

\* The password the members registered with.
member_password == "secret"

\* seed_data's sample_books, the first rows of the list.
sample_books ==
    << [title |-> "The Midnight Kite of Varanasi", author |-> "Arunika Senapati"],
       [title |-> "Whispers of the Monsoon", author |-> "Rohan Mehra"],
       [title |-> "The Last Stepwell", author |-> "Anaya Iyer"],
       [title |-> "Tales of the Banyan Court", author |-> "Devansh Rathore"] >>

VARIABLES
    db,     \* the committed database: what every connection reads
    wdb,    \* the database as seen inside the one open write transaction
    lock,   \* the handler whose connection holds the write lock, FREE or DROPPED
    pc,     \* each handler's position
    args,   \* each handler's request
    row,    \* return_book's local `borrow`: the id it fetched
    last    \* the response of the latest step: who answered which request with what

vars == <<db, wdb, lock, pc, args, row, last>>

FREE == "free"
DROPPED == "dropped"
NoArgs == [op |-> "none", user_id |-> 0, book_id |-> 0]
NoLast == [proc |-> "none", op |-> "none", user_id |-> 0, book_id |-> 0, msg |-> ""]
Caller == "caller"

\* Return values of the database functions.
RetTrue == "True"
RetFalse == "False"
RetNone == "None"
RetId == "lastrowid"

\* Flash messages of the routes.
MsgNotFound == "Book not found"
MsgNotAvailable == "Book is not available"
MsgBorrowed == "You have borrowed"
MsgBorrowFailed == "Failed to borrow book"
MsgReturned == "You have returned"
MsgReturnFailed == "Failed to return book"
MsgDeleted == "Book deleted successfully"
MsgTitleDeleted == "Book \"title\" deleted successfully"
MsgDeleteFailed == "Failed to delete book"
MsgNoPermission == "You do not have permission to access this page"
MsgAdded == "Book added successfully"
MsgUpdated == "Book updated successfully"
MsgLocked == "sqlite3.OperationalError: database is locked"
MsgError == "sqlite3.OperationalError"
MsgIntegrity == "sqlite3.IntegrityError"
MsgRequired == "Username and password are required"
MsgMismatch == "Passwords do not match"
MsgShort == "Password must be at least 6 characters"
MsgRegistered == "Registration successful! Please login."
MsgUsernameExists == "Username already exists"
MsgWelcome == "Welcome"
MsgInvalid == "Invalid username or password"
MsgLoggedOut == "You have been logged out"

-----------------------------------------------------------------------------
\* The SQL statements, as functions of a database image d.

\* SELECT * FROM books WHERE id = ? ; fetchone(): <<>> is None.
get_book_by_id(d, book_id) ==
    IF book_id \in DOMAIN d.books THEN << d.books[book_id] >> ELSE << >>

\* SELECT * FROM books
get_all_books(d) == DOMAIN d.books

\* SELECT * FROM books WHERE available = 1
get_available_books(d) == {b \in DOMAIN d.books : d.books[b].available}

\* The INSERT on an id column without AUTOINCREMENT: one more than the
\* largest id in the table.
InsertBookRowid(d, title, author) ==
    LET id == IF DOMAIN d.books = {} THEN 1
              ELSE 1 + (CHOOSE x \in DOMAIN d.books : \A y \in DOMAIN d.books : y <= x)
    IN [d EXCEPT !.book_seq = IF id > @ THEN id ELSE @,
                 !.books = [b \in DOMAIN d.books \cup {id} |->
                               IF b = id
                               THEN [title |-> title, author |-> author, available |-> TRUE]
                               ELSE d.books[b]]]

\* INSERT INTO books (title, author, available) VALUES (?, ?, 1), AUTOINCREMENT id.
InsertBook(d, title, author) ==
    LET id == d.book_seq + 1
    IN [d EXCEPT !.book_seq = id,
                 !.books = [b \in DOMAIN d.books \cup {id} |->
                               IF b = id
                               THEN [title |-> title, author |-> author, available |-> TRUE]
                               ELSE d.books[b]]]

\* The UPDATE resetting the flag to the column's default as well.
UpdateBookRowAndFlag(d, book_id, title, author) ==
    IF book_id \in DOMAIN d.books
    THEN [d EXCEPT !.books[book_id] =
                      [title |-> title, author |-> author, available |-> TRUE]]
    ELSE d

\* UPDATE books SET title = ?, author = ? WHERE id = ?
UpdateBookRow(d, book_id, title, author) ==
    IF book_id \in DOMAIN d.books
    THEN [d EXCEPT !.books[book_id].title = title, !.books[book_id].author = author]
    ELSE d

\* delete_book without its first statement.
DeleteBorrowedNone(d, book_id) == d

\* DELETE FROM borrowed_books WHERE book_id = ?
DeleteBorrowedOf(d, book_id) ==
    [d EXCEPT !.borrowed =
        [r \in {x \in DOMAIN d.borrowed : d.borrowed[x].book_id # book_id} |-> d.borrowed[r]]]

\* DELETE FROM books WHERE id = ?
DeleteBookRow(d, book_id) ==
    [d EXCEPT !.books = [b \in DOMAIN d.books \ {book_id} |-> d.books[b]]]

\* SELECT available FROM books WHERE id = ? ; fetchone()
SelectAvailable(d, book_id) ==
    IF book_id \in DOMAIN d.books THEN << d.books[book_id].available >> ELSE << >>

\* The test without its second half.
BorrowCanProceedAnyRow(result) == result # << >>

\* borrow_book's test: `if not result or not result['available']` is false.
BorrowCanProceed(result) == result # << >> /\ result[1]

\* INSERT INTO borrowed_books (user_id, book_id, borrowed_at) VALUES (?, ?, ?)
InsertBorrowed(d, user_id, book_id, t) ==
    LET id == d.borrow_seq + 1
    IN [d EXCEPT !.borrow_seq = id,
                 !.borrowed = [r \in DOMAIN d.borrowed \cup {id} |->
                                  IF r = id
                                  THEN [user_id |-> user_id, book_id |-> book_id,
                                        borrowed_at |-> t, returned_at |-> NULL]
                                  ELSE d.borrowed[r]]]

\* The UPDATE without its WHERE clause.
SetAvailableAll(d, book_id, v) ==
    [d EXCEPT !.books = [b \in DOMAIN d.books |-> [d.books[b] EXCEPT !.available = v]]]

\* UPDATE books SET available = ? WHERE id = ?
SetAvailable(d, book_id, v) ==
    IF book_id \in DOMAIN d.books
    THEN [d EXCEPT !.books[book_id].available = v]
    ELSE d

\* The SELECT without its user_id condition.
ActiveBorrowIdsAnyUser(d, user_id, book_id) ==
    {r \in DOMAIN d.borrowed : /\ d.borrowed[r].book_id = book_id
                               /\ d.borrowed[r].returned_at = NULL}

\* SELECT id FROM borrowed_books WHERE user_id = ? AND book_id = ? AND returned_at IS NULL
ActiveBorrowIds(d, user_id, book_id) ==
    {r \in DOMAIN d.borrowed : /\ d.borrowed[r].user_id = user_id
                               /\ d.borrowed[r].book_id = book_id
                               /\ d.borrowed[r].returned_at = NULL}

\* The UPDATE writing the wrong column.
SetBorrowedAt(d, id, t) ==
    IF id \in DOMAIN d.borrowed
    THEN [d EXCEPT !.borrowed[id].borrowed_at = t]
    ELSE d

\* UPDATE borrowed_books SET returned_at = ? WHERE id = ?
SetReturned(d, id, t) ==
    IF id \in DOMAIN d.borrowed
    THEN [d EXCEPT !.borrowed[id].returned_at = t]
    ELSE d

\* The rows of get_borrowed_books_by_user's JOIN, keyed by the borrowed_books row.
get_borrowed_books_by_user(d, user_id) ==
    LET ids == {r \in DOMAIN d.borrowed : /\ d.borrowed[r].user_id = user_id
                                          /\ d.borrowed[r].book_id \in DOMAIN d.books}
    IN [r \in ids |-> [id |-> d.borrowed[r].book_id,
                       title |-> d.books[d.borrowed[r].book_id].title,
                       author |-> d.books[d.borrowed[r].book_id].author,
                       borrowed_at |-> d.borrowed[r].borrowed_at,
                       returned_at |-> d.borrowed[r].returned_at]]

\* get_active_borrowed_books_by_user: the rows of the JOIN with returned_at
\* NULL, in each order that ORDER BY bb.borrowed_at DESC allows.
get_active_borrowed_books_by_user(d, user_id) ==
    LET ids == {r \in DOMAIN d.borrowed : /\ d.borrowed[r].user_id = user_id
                                          /\ d.borrowed[r].returned_at = NULL
                                          /\ d.borrowed[r].book_id \in DOMAIN d.books}
        n == Cardinality(ids)
        orders == {f \in [1..n -> ids] :
                     /\ \A i, j \in 1..n : f[i] = f[j] => i = j
                     /\ \A i, j \in 1..n :
                           i < j => d.borrowed[f[i]].borrowed_at >= d.borrowed[f[j]].borrowed_at}
    IN {[i \in 1..n |-> [id |-> d.borrowed[f[i]].book_id,
                         title |-> d.books[d.borrowed[f[i]].book_id].title,
                         author |-> d.books[d.borrowed[f[i]].book_id].author,
                         borrowed_at |-> d.borrowed[f[i]].borrowed_at]] : f \in orders}

\* borrow_book, run to completion at time t.
borrow_book(d, user_id, book_id, t) ==
    IF BorrowCanProceed(SelectAvailable(d, book_id))
    THEN [ret |-> RetTrue,
          db |-> SetAvailable(InsertBorrowed(d, user_id, book_id, t), book_id, FALSE)]
    ELSE [ret |-> RetFalse, db |-> d]

\* return_book without its second UPDATE.
return_book_flag_kept(d, id, book_id, t) ==
    [ret |-> RetTrue, db |-> SetReturned(d, id, t)]

\* return_book, run to completion at time t, with id the row fetchone() gave.
return_book(d, id, book_id, t) ==
    [ret |-> RetTrue, db |-> SetAvailable(SetReturned(d, id, t), book_id, TRUE)]

\* delete_book, run to completion.
delete_book(d, book_id) ==
    [ret |-> RetNone, db |-> DeleteBookRow(DeleteBorrowedOf(d, book_id), book_id)]

\* SELECT * FROM users WHERE username = ? ; fetchone(): <<>> is None.
get_user_by_username(d, username) ==
    LET ids == {u \in DOMAIN d.users : d.users[u].username = username}
    IN IF ids = {} THEN << >>
       ELSE LET u == CHOOSE x \in ids : \A y \in ids : x <= y
            IN << [id |-> u, username |-> d.users[u].username,
                   password |-> d.users[u].password, role |-> d.users[u].role] >>

\* A users table without the UNIQUE constraint.
UsernameTakenNever(d, username) == FALSE

\* username TEXT UNIQUE NOT NULL: the INSERT raises sqlite3.IntegrityError.
UsernameTaken(d, username) == \E u \in DOMAIN d.users : d.users[u].username = username

\* The INSERT with the role of seed_data's.
InsertUserAsAdmin(d, username, password, role) ==
    LET id == d.user_seq + 1
    IN [d EXCEPT !.user_seq = id,
                 !.users = [u \in DOMAIN d.users \cup {id} |->
                               IF u = id
                               THEN [username |-> username, password |-> password,
                                     role |-> "admin"]
                               ELSE d.users[u]]]

\* INSERT INTO users (username, password, role) VALUES (?, ?, ?), AUTOINCREMENT id.
InsertUser(d, username, password, role) ==
    LET id == d.user_seq + 1
    IN [d EXCEPT !.user_seq = id,
                 !.users = [u \in DOMAIN d.users \cup {id} |->
                               IF u = id
                               THEN [username |-> username, password |-> password,
                                     role |-> role]
                               ELSE d.users[u]]]

\* create_user up to its commit: None on IntegrityError, else the new row's id.
create_user(d, username, password, role) ==
    IF UsernameTaken(d, username)
    THEN [ret |-> RetNone, db |-> d]
    ELSE [ret |-> RetId, db |-> InsertUser(d, username, hash_password(password), role)]

\* seed_data's loop over sample_books, the first n of them.
RECURSIVE InsertSampleBooks(_, _)
InsertSampleBooks(d, n) ==
    IF n = 0 THEN d
    ELSE InsertBook(InsertSampleBooks(d, n - 1), sample_books[n].title, sample_books[n].author)

\* len(password) of the form values.
len(password) ==
    CASE password = "" -> 0
      [] password = "abc" -> 3
      [] password = "secret" -> 6
      [] password = "admin123" -> 8

\* A connection in autocommit mode: every statement is committed at once.
ReadUncommitted(committed, pending) == pending

\* What the other connections read once a connection has executed a write
\* statement inside its open transaction: sqlite3.connect's default isolation
\* level keeps the write uncommitted, so they read the committed image.
ReadAfterWrite(committed, pending) == committed

\* The timestamps of a database image.
Stamps(d) ==
    {d.borrowed[r].borrowed_at : r \in DOMAIN d.borrowed}
        \cup {d.borrowed[r].returned_at : r \in DOMAIN d.borrowed}

Max(S) == CHOOSE x \in S : \A y \in S : y <= x

\* datetime.now(): the clock never goes back, so a reading is the latest
\* timestamp written so far or a later one.
Now(committed, pending) ==
    LET latest == Max(Stamps(committed) \cup Stamps(pending) \cup {1})
    IN {t \in {latest, latest + 1} : t <= MaxTime}

-----------------------------------------------------------------------------
\* The store after init_db, seed_data and the members' registration: the admin
\* and the members, the sample books, all available, and an empty ledger.
InitDb ==
    [exists |-> TRUE,
     tables |-> Tables,
     users |-> [u \in DOMAIN usernames |->
                   IF u = 1
                   THEN [username |-> admin_username,
                         password |-> hash_password(admin_password), role |-> "admin"]
                   ELSE [username |-> usernames[u],
                         password |-> hash_password(member_password), role |-> "member"]],
     user_seq |-> Len(usernames),
     books |-> [b \in SeedIds |->
                   [title |-> sample_books[b].title, author |-> sample_books[b].author,
                    available |-> TRUE]],
     book_seq |-> Cardinality(SeedIds),
     borrowed |-> [r \in {} |-> [user_id |-> 0, book_id |-> 0,
                                 borrowed_at |-> 0, returned_at |-> NULL]],
     borrow_seq |-> 0]

Init ==
    /\ db = InitDb
    /\ wdb = InitDb
    /\ lock = FREE
    /\ pc = [p \in Procs |-> "idle"]
    /\ args = [p \in Procs |-> NoArgs]
    /\ row = [p \in Procs |-> 0]
    /\ last = NoLast

AllIdle == \A p \in Procs : pc[p] = "idle"

-----------------------------------------------------------------------------
\* The database functions called one at a time, each run to completion.

Call(op, user_id, book_id, result) ==
    /\ AllIdle
    /\ db' = result.db
    /\ wdb' = result.db
    /\ last' = [proc |-> Caller, op |-> op, user_id |-> user_id, book_id |-> book_id,
                msg |-> result.ret]
    /\ UNCHANGED <<lock, pc, args, row>>

CallAddBook(title, author) ==
    /\ db.book_seq + 1 \in BookIds
    /\ Call("add_book", 0, db.book_seq + 1,
            [ret |-> RetId, db |-> InsertBook(db, title, author)])

CallUpdateBook(book_id, title, author) ==
    Call("update_book", 0, book_id,
         [ret |-> RetNone, db |-> UpdateBookRow(db, book_id, title, author)])

CallDeleteBook(book_id) ==
    Call("delete_book", 0, book_id, delete_book(db, book_id))

CallBorrowBook(user_id, book_id) ==
    /\ BorrowCanProceed(SelectAvailable(db, book_id)) => db.borrow_seq < MaxBorrows
    /\ \E t \in Now(db, wdb) :
          Call("borrow_book", user_id, book_id, borrow_book(db, user_id, book_id, t))

CallReturnBook(user_id, book_id) ==
    LET ids == ActiveBorrowIds(db, user_id, book_id)
    IN IF ids = {}
       THEN Call("return_book", user_id, book_id, [ret |-> RetFalse, db |-> db])
       ELSE \E id \in ids, t \in Now(db, wdb) :
               Call("return_book", user_id, book_id, return_book(db, id, book_id, t))

\* The session auth.login stores for the row of user u: user_id and role.
Session(d, u) == [user_id |-> u, role |-> d.users[u].role]

\* The sessions of the routes' callers: the admin's and the members'.
SessionUsers == {1} \cup Users

\* before_request of the blueprints: the request goes on to the route.
check_member(session) == session.role = "member"
check_admin(session) == session.role = "admin"

\* `if delete_book(book_id):` and the like.
Truthy(ret) == ret \in {RetTrue, RetId}

\* member.delete_book_page, run to completion.
MemberDeleteBookPage(session, book_id) ==
    LET r == delete_book(db, book_id)
        answer ==
            IF ~check_member(session) THEN [ret |-> MsgNoPermission, db |-> db]
            ELSE IF get_book_by_id(db, book_id) = << >> THEN [ret |-> MsgNotFound, db |-> db]
            ELSE IF Truthy(r.ret) THEN [ret |-> MsgTitleDeleted, db |-> r.db]
            ELSE [ret |-> MsgDeleteFailed, db |-> r.db]
    IN Call("member.delete_book_page", session.user_id, book_id, answer)

\* admin.delete_book_page, run to completion.
AdminDeleteBookPage(session, book_id) ==
    LET r == delete_book(db, book_id)
        answer ==
            IF ~check_admin(session) THEN [ret |-> MsgNoPermission, db |-> db]
            ELSE IF get_book_by_id(db, book_id) = << >> THEN [ret |-> MsgNotFound, db |-> db]
            ELSE [ret |-> MsgDeleted, db |-> r.db]
    IN Call("admin.delete_book_page", session.user_id, book_id, answer)

NextSeq ==
    \/ \E t \in Titles, a \in Authors : CallAddBook(t, a)
    \/ \E b \in BookIds, t \in Titles, a \in Authors : CallUpdateBook(b, t, a)
    \/ \E b \in BookIds : CallDeleteBook(b)
    \/ \E u \in Users, b \in BookIds : CallBorrowBook(u, b)
    \/ \E u \in Users, b \in BookIds : CallReturnBook(u, b)
    \/ \E u \in SessionUsers, b \in BookIds : MemberDeleteBookPage(Session(db, u), b)
    \/ \E u \in SessionUsers, b \in BookIds : AdminDeleteBookPage(Session(db, u), b)

SpecSeq == Init /\ [][NextSeq]_vars

-----------------------------------------------------------------------------
\* The routes as concurrent request handlers, one step per statement.

\* A request goes to the first handler that is free.
Accepts(p) ==
    \E i \in DOMAIN ProcOrder :
        /\ ProcOrder[i] = p
        /\ pc[p] = "idle"
        /\ \A j \in 1..(i - 1) : pc[ProcOrder[j]] # "idle"

\* The handler returns its response.
Respond(p, a, msg) ==
    /\ pc' = [pc EXCEPT ![p] = "idle"]
    /\ args' = [args EXCEPT ![p] = NoArgs]
    /\ row' = [row EXCEPT ![p] = 0]
    /\ last' = [proc |-> p, op |-> a.op, user_id |-> a.user_id, book_id |-> a.book_id,
                msg |-> msg]

Goto(p, a, label) ==
    /\ pc' = [pc EXCEPT ![p] = label]
    /\ args' = [args EXCEPT ![p] = a]
    /\ last' = NoLast
    /\ UNCHANGED row

\* The first write statement of a connection: BEGIN, taking the write lock.
BeginWrite(p, d) ==
    /\ lock = FREE
    /\ lock' = p
    /\ wdb' = d
    /\ db' = ReadAfterWrite(db, d)

\* The last write statement of the transaction, and conn.commit().
WriteCommit(p, d) ==
    /\ lock = p
    /\ db' = d
    /\ wdb' = d
    /\ lock' = FREE

\* member.borrow: the route's lookup.
BorrowRequest(p, user_id, book_id) ==
    /\ Accepts(p)
    /\ LET a == [op |-> "borrow", user_id |-> user_id, book_id |-> book_id]
           book == get_book_by_id(db, book_id)
       IN IF book = << >> THEN Respond(p, a, MsgNotFound)
          ELSE IF ~book[1].available THEN Respond(p, a, MsgNotAvailable)
          ELSE Goto(p, a, "borrow_select")
    /\ UNCHANGED <<db, wdb, lock>>

\* borrow_book: check if the book is available.
BorrowSelect(p) ==
    /\ pc[p] = "borrow_select"
    /\ IF BorrowCanProceed(SelectAvailable(db, args[p].book_id))
       THEN Goto(p, args[p], "borrow_insert")
       ELSE Respond(p, args[p], MsgBorrowFailed)
    /\ UNCHANGED <<db, wdb, lock>>

\* borrow_book: record the borrow.
BorrowInsert(p) ==
    /\ pc[p] = "borrow_insert"
    /\ db.borrow_seq < MaxBorrows
    /\ \E t \in Now(db, wdb) :
          BeginWrite(p, InsertBorrowed(db, args[p].user_id, args[p].book_id, t))
    /\ Goto(p, args[p], "borrow_update")

\* borrow_book: update book availability, and commit.
BorrowUpdate(p) ==
    /\ pc[p] = "borrow_update"
    /\ WriteCommit(p, SetAvailable(wdb, args[p].book_id, FALSE))
    /\ Respond(p, args[p], MsgBorrowed)

\* member.return_book_page: the route's lookup.
ReturnRequest(p, user_id, book_id) ==
    /\ Accepts(p)
    /\ LET a == [op |-> "return", user_id |-> user_id, book_id |-> book_id]
       IN IF get_book_by_id(db, book_id) = << >> THEN Respond(p, a, MsgNotFound)
          ELSE Goto(p, a, "return_select")
    /\ UNCHANGED <<db, wdb, lock>>

\* return_book: find the active borrow record.
ReturnSelect(p) ==
    /\ pc[p] = "return_select"
    /\ LET ids == ActiveBorrowIds(db, args[p].user_id, args[p].book_id)
       IN IF ids = {} THEN Respond(p, args[p], MsgReturnFailed)
          ELSE \E r \in ids :
                  /\ pc' = [pc EXCEPT ![p] = "return_record"]
                  /\ row' = [row EXCEPT ![p] = r]
                  /\ last' = NoLast
                  /\ UNCHANGED args
    /\ UNCHANGED <<db, wdb, lock>>

\* return_book: update the borrow record.
ReturnRecord(p) ==
    /\ pc[p] = "return_record"
    /\ \E t \in Now(db, wdb) : BeginWrite(p, SetReturned(db, row[p], t))
    /\ Goto(p, args[p], "return_book")

\* return_book: update book availability, and commit.
ReturnBook(p) ==
    /\ pc[p] = "return_book"
    /\ WriteCommit(p, SetAvailable(wdb, args[p].book_id, TRUE))
    /\ Respond(p, args[p], MsgReturned)

\* admin.delete_book_page: the route's lookup.
DeleteRequest(p, book_id) ==
    /\ Accepts(p)
    /\ LET a == [op |-> "delete", user_id |-> 0, book_id |-> book_id]
       IN IF get_book_by_id(db, book_id) = << >> THEN Respond(p, a, MsgNotFound)
          ELSE Goto(p, a, "delete_borrowed")
    /\ UNCHANGED <<db, wdb, lock>>

\* delete_book: delete from borrowed_books first.
DeleteBorrowed(p) ==
    /\ pc[p] = "delete_borrowed"
    /\ BeginWrite(p, DeleteBorrowedOf(db, args[p].book_id))
    /\ Goto(p, args[p], "delete_book")

\* delete_book: delete the book, and commit.
DeleteBook(p) ==
    /\ pc[p] = "delete_book"
    /\ WriteCommit(p, DeleteBookRow(wdb, args[p].book_id))
    /\ Respond(p, args[p], MsgDeleted)

CreateLabels == << "create_users", "create_books", "create_borrowed_books" >>

WriteLabels ==
    {"borrow_insert", "return_record", "delete_borrowed", "seed_admin", "create_user"}
        \cup {CreateLabels[i] : i \in DOMAIN CreateLabels}

\* A first write statement that finds the database locked for longer than the
\* connection's timeout raises; the handler ends with nothing written.
BusyTimeout(p) ==
    /\ pc[p] \in WriteLabels
    /\ lock \notin {FREE, p}
    /\ Respond(p, args[p], MsgLocked)
    /\ UNCHANGED <<db, wdb, lock>>

\* The second write statement raises: the handler ends without commit or
\* close. Its uncommitted write is never read again, and its connection keeps
\* the lock until the garbage collector drops it.
StorageError(p) ==
    /\ lock = p
    /\ lock' = DROPPED
    /\ wdb' = db
    /\ Respond(p, args[p], MsgError)
    /\ UNCHANGED db

\* The dropped connection is collected: its transaction is rolled back and
\* the lock released.
Collect ==
    /\ lock = DROPPED
    /\ lock' = FREE
    /\ UNCHANGED <<db, wdb, pc, args, row, last>>

\* The handlers run concurrently, one thread per request, on the seeded books
\* (no book is added meanwhile, so any other id only reads as not found, as a
\* deleted one does).
Next ==
    \/ \E p \in Procs, u \in Users, b \in SeedIds : BorrowRequest(p, u, b)
    \/ \E p \in Procs : BorrowSelect(p)
    \/ \E p \in Procs : BorrowInsert(p)
    \/ \E p \in Procs : BorrowUpdate(p)
    \/ \E p \in Procs, u \in Users, b \in SeedIds : ReturnRequest(p, u, b)
    \/ \E p \in Procs : ReturnSelect(p)
    \/ \E p \in Procs : ReturnRecord(p)
    \/ \E p \in Procs : ReturnBook(p)
    \/ \E p \in Procs, b \in SeedIds : DeleteRequest(p, b)
    \/ \E p \in Procs : DeleteBorrowed(p)
    \/ \E p \in Procs : DeleteBook(p)
    \/ \E p \in Procs : BusyTimeout(p)
    \/ \E p \in Procs : StorageError(p)
    \/ Collect

Spec == Init /\ [][Next]_vars

-----------------------------------------------------------------------------
\* The first requests: startup before each of them, then the auth routes.

\* No library.db yet.
NoStore ==
    [exists |-> FALSE,
     tables |-> {},
     users |-> << >>,
     user_seq |-> 0,
     books |-> << >>,
     book_seq |-> 0,
     borrowed |-> << >>,
     borrow_seq |-> 0]

InitAuth ==
    /\ db = NoStore
    /\ wdb = NoStore
    /\ lock = FREE
    /\ pc = [p \in Procs |-> "idle"]
    /\ args = [p \in Procs |-> NoArgs]
    /\ row = [p \in Procs |-> 0]
    /\ last = NoLast

Form(op, username, password, confirm_password) ==
    [op |-> op, user_id |-> 0, book_id |-> 0, username |-> username,
     password |-> password, confirm_password |-> confirm_password]

\* The forms posted to /register and /login, and the /logout request.
RegisterForms ==
    {Form("register", "admin", "secret", "secret"),
     Form("register", "asha", "secret", "secret"),
     Form("register", "asha", "abc", "abc"),
     Form("register", "asha", "secret", "abc"),
     Form("register", "", "secret", "secret")}
LoginForms ==
    {Form("login", "admin", "admin123", ""),
     Form("login", "asha", "secret", ""),
     Form("login", "asha", "abc", "")}
LogoutRequests == {Form("logout", "", "", "")}

\* app.startup, before the route: `if not os.path.exists('library.db')`.
startup(p, a) ==
    /\ Accepts(p)
    /\ IF ~db.exists THEN Goto(p, a, "init_db") ELSE Goto(p, a, a.op)
    /\ UNCHANGED <<db, wdb, lock>>

\* init_db: `if os.path.exists(DB_PATH): return`, and then seed_data.
init_db(p) ==
    /\ pc[p] = "init_db"
    /\ IF db.exists THEN Goto(p, args[p], "seed_data") ELSE Goto(p, args[p], "connect")
    /\ UNCHANGED <<db, wdb, lock>>

\* init_db: get_db_connection creates the file if there is none.
Connect(p) ==
    /\ pc[p] = "connect"
    /\ db' = [db EXCEPT !.exists = TRUE]
    /\ wdb' = [wdb EXCEPT !.exists = TRUE]
    /\ Goto(p, args[p], CreateLabels[1])
    /\ UNCHANGED lock

\* init_db: CREATE TABLE, committed at once; a table that is there already
\* raises and ends the request.
CreateTable(p, i) ==
    /\ pc[p] = CreateLabels[i]
    /\ lock = FREE
    /\ IF TableOrder[i] \in db.tables
       THEN Respond(p, args[p], MsgError) /\ UNCHANGED <<db, wdb>>
       ELSE /\ db' = [db EXCEPT !.tables = @ \cup {TableOrder[i]}]
            /\ wdb' = db'
            /\ Goto(p, args[p], IF i < Len(CreateLabels) THEN CreateLabels[i + 1]
                                ELSE "seed_data")
    /\ UNCHANGED lock

\* seed_data: check if admin already exists.
seed_data(p) ==
    /\ pc[p] = "seed_data"
    /\ IF "users" \notin db.tables THEN Respond(p, args[p], MsgError)
       ELSE IF get_user_by_username(db, admin_username) # << >>
            THEN Goto(p, args[p], args[p].op)
            ELSE Goto(p, args[p], "seed_admin")
    /\ UNCHANGED <<db, wdb, lock>>

\* seed_data: insert default admin. The IntegrityError of a taken username is
\* not caught: the request ends and its connection is dropped, transaction open.
SeedAdmin(p) ==
    /\ pc[p] = "seed_admin"
    /\ lock = FREE
    /\ IF UsernameTaken(db, admin_username)
       THEN /\ lock' = DROPPED
            /\ Respond(p, args[p], MsgIntegrity)
            /\ UNCHANGED <<db, wdb>>
       ELSE /\ BeginWrite(p, InsertUser(db, admin_username,
                                        hash_password(admin_password), "admin"))
            /\ Goto(p, args[p], "seed_books")

\* seed_data: insert the sample books, and commit; then the route.
SeedBooks(p) ==
    /\ pc[p] = "seed_books"
    /\ "books" \in db.tables
    /\ WriteCommit(p, InsertSampleBooks(wdb, Cardinality(SeedIds)))
    /\ Goto(p, args[p], args[p].op)

\* auth.register: the form's checks.
register(p) ==
    /\ pc[p] = "register"
    /\ LET a == args[p]
       IN IF a.username = "" \/ a.password = "" THEN Respond(p, a, MsgRequired)
          ELSE IF a.password # a.confirm_password THEN Respond(p, a, MsgMismatch)
          ELSE IF len(a.password) < 6 THEN Respond(p, a, MsgShort)
          ELSE Goto(p, a, "create_user")
    /\ UNCHANGED <<db, wdb, lock>>

\* create_user(username, password, role='member'): the INSERT. IntegrityError
\* is caught and the connection closed.
CreateUserInsert(p) ==
    /\ pc[p] = "create_user"
    /\ lock = FREE
    /\ IF "users" \notin db.tables
       THEN Respond(p, args[p], MsgError) /\ UNCHANGED <<db, wdb, lock>>
       ELSE LET r == create_user(db, args[p].username, args[p].password, "member")
            IN IF r.ret = RetNone
               THEN Respond(p, args[p], MsgUsernameExists) /\ UNCHANGED <<db, wdb, lock>>
               ELSE BeginWrite(p, r.db) /\ Goto(p, args[p], "create_commit")

\* create_user: conn.commit(), and register's redirect.
CreateUserCommit(p) ==
    /\ pc[p] = "create_commit"
    /\ WriteCommit(p, wdb)
    /\ Respond(p, args[p], MsgRegistered)

\* auth.login.
login(p) ==
    /\ pc[p] = "login"
    /\ LET a == args[p]
           user == get_user_by_username(db, a.username)
       IN IF a.username = "" \/ a.password = "" THEN Respond(p, a, MsgRequired)
          ELSE IF "users" \notin db.tables THEN Respond(p, a, MsgError)
          ELSE IF user # << >> /\ verify_password(a.password, user[1].password)
               THEN Respond(p, [a EXCEPT !.user_id = user[1].id], MsgWelcome)
               ELSE Respond(p, a, MsgInvalid)
    /\ UNCHANGED <<db, wdb, lock>>

\* auth.logout.
logout(p) ==
    /\ pc[p] = "logout"
    /\ Respond(p, args[p], MsgLoggedOut)
    /\ UNCHANGED <<db, wdb, lock>>

NextAuth ==
    \/ \E p \in Procs, a \in RegisterForms \cup LoginForms \cup LogoutRequests : startup(p, a)
    \/ \E p \in Procs : init_db(p)
    \/ \E p \in Procs : Connect(p)
    \/ \E p \in Procs, i \in DOMAIN CreateLabels : CreateTable(p, i)
    \/ \E p \in Procs : seed_data(p)
    \/ \E p \in Procs : SeedAdmin(p)
    \/ \E p \in Procs : SeedBooks(p)
    \/ \E p \in Procs : register(p)
    \/ \E p \in Procs : CreateUserInsert(p)
    \/ \E p \in Procs : CreateUserCommit(p)
    \/ \E p \in Procs : login(p)
    \/ \E p \in Procs : logout(p)
    \/ \E p \in Procs : BusyTimeout(p)
    \/ \E p \in Procs : StorageError(p)
    \/ Collect

SpecAuth == InitAuth /\ [][NextAuth]_vars

-----------------------------------------------------------------------------
\* Properties.

\* The active borrowed_books rows of a book.
Active(d, book_id) ==
    {r \in DOMAIN d.borrowed : /\ d.borrowed[r].book_id = book_id
                               /\ d.borrowed[r].returned_at = NULL}

RowsOf(d, book_id) == {r \in DOMAIN d.borrowed : d.borrowed[r].book_id = book_id}

\* This step is a call of the database function op.
IsCall(op) == last'.proc = Caller /\ last'.op = op

\* C1: after every database function run to completion, a book is available
\* if and only if no row with returned_at NULL references it.
AvailableIffNoActive ==
    \A b \in DOMAIN db.books : db.books[b].available <=> Active(db, b) = {}

\* C1 witness: after a successful return, one book is back with a returned row
\* while another book is out.
AvailableIffNoActiveWitness ==
    /\ last.op = "return_book" /\ last.msg = RetTrue
    /\ \E b1, b2 \in DOMAIN db.books :
          /\ db.books[b1].available /\ RowsOf(db, b1) # {}
          /\ ~db.books[b2].available /\ Active(db, b2) # {}

\* C2: a borrow succeeds only on a book nobody holds: of two concurrent borrows
\* of one book the second to commit does not succeed.
OneBorrowSucceeds ==
    [][\A p \in Procs :
          (pc[p] = "borrow_update" /\ last'.proc = p /\ last'.msg = MsgBorrowed)
              => Active(db, args[p].book_id) = {}]_vars

\* C3: every book has at most one row with returned_at NULL.
AtMostOneActive ==
    \A b \in BookIds : Cardinality(Active(db, b)) <= 1

\* C4: borrow_book on a book whose available flag is false returns False and
\* leaves the books and the borrowed_books rows as they were.
BorrowUnavailableFails ==
    [][(/\ IsCall("borrow_book")
        /\ last'.book_id \in DOMAIN db.books
        /\ ~db.books[last'.book_id].available)
           => (last'.msg = RetFalse /\ db' = db)]_vars

\* C4 witness: the user who holds the book was refused a second borrow of it.
BorrowUnavailableFailsWitness ==
    /\ last.op = "borrow_book" /\ last.msg = RetFalse
    /\ \E r \in Active(db, last.book_id) : db.borrowed[r].user_id = last.user_id

\* C5: return_book with no active row for (user, book) returns False, the same
\* in every case, and leaves the books and the borrowed_books rows as they were.
ReturnWithoutBorrowFails ==
    [][(/\ IsCall("return_book")
        /\ ~\E r \in DOMAIN db.borrowed :
               /\ db.borrowed[r].user_id = last'.user_id
               /\ db.borrowed[r].book_id = last'.book_id
               /\ db.borrowed[r].returned_at = NULL)
           => (last'.msg = RetFalse /\ db' = db)]_vars

\* C5 witness: the refused user has returned the book before, and another
\* user holds it now.
ReturnWithoutBorrowFailsWitness ==
    /\ last.op = "return_book" /\ last.msg = RetFalse
    /\ \E r1, r2 \in RowsOf(db, last.book_id) :
          /\ db.borrowed[r1].user_id = last.user_id
          /\ db.borrowed[r1].returned_at # NULL
          /\ db.borrowed[r2].user_id # last.user_id
          /\ db.borrowed[r2].returned_at = NULL

\* C6: borrow_book(u, b) on an available book succeeds and adds exactly one
\* row; return_book(u, b) right after it succeeds, adds no row, makes b
\* available and sets that row's returned_at, not before its borrowed_at.
BorrowThenReturn ==
    [][/\ (/\ IsCall("borrow_book")
           /\ last'.book_id \in DOMAIN db.books
           /\ db.books[last'.book_id].available)
              => /\ last'.msg = RetTrue
                 /\ \E id \in DOMAIN db'.borrowed \ DOMAIN db.borrowed :
                       /\ DOMAIN db'.borrowed = DOMAIN db.borrowed \cup {id}
                       /\ db'.borrowed[id].user_id = last'.user_id
                       /\ db'.borrowed[id].book_id = last'.book_id
                       /\ db'.borrowed[id].returned_at = NULL
       /\ (/\ IsCall("return_book")
           /\ last.op = "borrow_book" /\ last.msg = RetTrue
           /\ last'.user_id = last.user_id /\ last'.book_id = last.book_id)
              => /\ last'.msg = RetTrue
                 /\ db'.books[last.book_id].available
                 /\ DOMAIN db'.borrowed = DOMAIN db.borrowed
                 /\ \E id \in Active(db, last.book_id) :
                       /\ db'.borrowed[id].returned_at # NULL
                       /\ db'.borrowed[id].borrowed_at <= db'.borrowed[id].returned_at
                       /\ db'.borrowed[id].borrowed_at = db.borrowed[id].borrowed_at
                       /\ \A r \in DOMAIN db.borrowed \ {id} :
                             db'.borrowed[r] = db.borrowed[r]]_vars

\* C6 witness: a book is back after a successful return, its newest row
\* returned later than it was borrowed.
BorrowThenReturnWitness ==
    /\ last.op = "return_book" /\ last.msg = RetTrue
    /\ last.book_id \in DOMAIN db.books
    /\ db.books[last.book_id].available
    /\ db.borrow_seq \in DOMAIN db.borrowed
    /\ db.borrowed[db.borrow_seq].book_id = last.book_id
    /\ db.borrowed[db.borrow_seq].user_id = last.user_id
    /\ db.borrowed[db.borrow_seq].borrowed_at < db.borrowed[db.borrow_seq].returned_at

\* C7: in every step, what the connections read of a book in the catalog
\* changes in its rows and in its flag together: a new active row comes with
\* the flag false, a row's returned_at is written with the flag true, and the
\* flag never flips without the row.
LedgerAndFlagTogether ==
    [][\A b \in DOMAIN db.books \cap DOMAIN db'.books :
          /\ (\E r \in RowsOf(db', b) : r \notin DOMAIN db.borrowed)
                => ~db'.books[b].available
          /\ (\E r \in RowsOf(db, b) \cap RowsOf(db', b) :
                 db'.borrowed[r].returned_at # db.borrowed[r].returned_at)
                => db'.books[b].available
          /\ (db.books[b].available /\ ~db'.books[b].available)
                => \E r \in Active(db', b) : r \notin DOMAIN db.borrowed
          /\ (~db.books[b].available /\ db'.books[b].available)
                => \E r \in RowsOf(db', b) : db'.borrowed[r].returned_at # NULL]_vars

\* C7 witness: one handler is between its INSERT and its UPDATE while another
\* is about to read the same book, which reads as available and not lent.
LedgerAndFlagTogetherWitness ==
    \E p, q \in Procs :
        /\ pc[p] = "borrow_update" /\ pc[q] = "borrow_select"
        /\ args[p].book_id = args[q].book_id
        /\ wdb # db
        /\ db.books[args[p].book_id].available
        /\ Active(db, args[p].book_id) = {}

\* C8: delete_book on an existing book leaves no row of it, takes it out of
\* get_all_books and of every user's history, and leaves every other book and
\* every other row as it was.
DeleteRemovesBookAndRows ==
    [][(IsCall("delete_book") /\ last'.book_id \in DOMAIN db.books)
          => LET b == last'.book_id
             IN /\ RowsOf(db', b) = {}
                /\ get_all_books(db') = get_all_books(db) \ {b}
                /\ \A u \in Users :
                      \A r \in DOMAIN get_borrowed_books_by_user(db', u) :
                          get_borrowed_books_by_user(db', u)[r].id # b
                /\ \A b2 \in DOMAIN db.books \ {b} : db'.books[b2] = db.books[b2]
                /\ DOMAIN db'.borrowed = DOMAIN db.borrowed \ RowsOf(db, b)
                /\ \A r \in DOMAIN db'.borrowed : db'.borrowed[r] = db.borrowed[r]
                /\ \A u \in Users :
                      \A r \in DOMAIN get_borrowed_books_by_user(db, u) :
                          db.borrowed[r].book_id # b =>
                              /\ r \in DOMAIN get_borrowed_books_by_user(db', u)
                              /\ get_borrowed_books_by_user(db', u)[r]
                                    = get_borrowed_books_by_user(db, u)[r]]_vars

\* C8 witness: a book that had rows is deleted with them, and another book's
\* rows are still there.
DeleteRemovesBookAndRowsWitness ==
    /\ last.op = "delete_book"
    /\ last.book_id \notin DOMAIN db.books
    /\ last.book_id <= db.book_seq
    /\ DOMAIN db.borrowed # {}
    /\ \E id \in 1..db.borrow_seq : id \notin DOMAIN db.borrowed

\* C9: every borrowed_books row references a book of the catalog.
NoOrphanRows ==
    \A r \in DOMAIN db.borrowed : db.borrowed[r].book_id \in DOMAIN db.books

\* C10: a returned_at that is set is never written again.
ReturnedAtWrittenOnce ==
    [][\A r \in DOMAIN db.borrowed \cap DOMAIN db'.borrowed :
          db.borrowed[r].returned_at # NULL
              => db'.borrowed[r].returned_at = db.borrowed[r].returned_at]_vars

\* No two rows of users have the same username.
UniqueUsernames(d) ==
    \A u, v \in DOMAIN d.users : d.users[u].username = d.users[v].username => u = v

\* C11: a handler whose create_user finds its username in the users table ends
\* without an id (register answers 'Username already exists', or the INSERT
\* raised on the lock) and leaves the store as it was; and no two users ever
\* share a username, concurrent registrations of one name included.
DuplicateUsernameFails ==
    [][/\ \A p \in Procs :
             (/\ pc[p] = "create_user" /\ pc'[p] # pc[p]
              /\ \E u \in DOMAIN db.users : db.users[u].username = args[p].username)
                 => /\ pc'[p] = "idle"
                    /\ last'.proc = p
                    /\ last'.msg \in {MsgUsernameExists, MsgLocked}
                    /\ db' = db
       /\ UniqueUsernames(db')]_vars

\* C11 witness: a registration was refused for its username while the other
\* handler is about to insert a name that is taken too.
DuplicateUsernameFailsWitness ==
    /\ last.op = "register" /\ last.msg = MsgUsernameExists
    /\ \E q \in Procs :
          /\ pc[q] = "create_user"
          /\ \E u \in DOMAIN db.users : db.users[u].username = args[q].username

\* C12: a borrow answered while its book is not in the catalog is answered
\* 'Book not found', and inserts no row (a storage error aside).
BorrowAbsentNotFound ==
    [][(/\ last'.op = "borrow"
        /\ last'.book_id \notin DOMAIN db.books
        /\ last'.msg \notin {MsgLocked, MsgError})
           => (last'.msg = MsgNotFound /\ db'.borrowed = db.borrowed)]_vars

DeleteRoutes == {"member.delete_book_page", "admin.delete_book_page"}

\* C13: a delete request of a session whose role is member removes no book
\* and no borrowed_books row.
MemberNeverDeletes ==
    [][(/\ last'.proc = Caller /\ last'.op \in DeleteRoutes
        /\ db.users[last'.user_id].role = "member")
           => /\ DOMAIN db'.books = DOMAIN db.books
              /\ DOMAIN db'.borrowed = DOMAIN db.borrowed]_vars

\* C14: a delete route that went past its session check answers that the book
\* was deleted exactly when it was there and is gone with its rows, and 'Book
\* not found' exactly when it was not there.
DeleteReportsOutcome ==
    [][(/\ last'.proc = Caller /\ last'.op \in DeleteRoutes
        /\ last'.msg # MsgNoPermission)
           => LET b == last'.book_id
                  removed == /\ b \in DOMAIN db.books /\ b \notin DOMAIN db'.books
                             /\ RowsOf(db', b) = {}
              IN /\ last'.msg \in {MsgDeleted, MsgTitleDeleted} <=> removed
                 /\ last'.msg = MsgNotFound <=> b \notin DOMAIN db.books
                 /\ last'.msg \in {MsgDeleted, MsgTitleDeleted, MsgNotFound}]_vars

\* C15: update_book changes at most the title and author of its one book,
\* add_book changes no book or row that was there, and a book's available
\* flag changes only in a borrow_book or return_book call.
UpdateAndAddFrame ==
    [][/\ IsCall("update_book")
             => /\ DOMAIN db'.books = DOMAIN db.books
                /\ \A b \in DOMAIN db.books :
                      /\ db'.books[b].available = db.books[b].available
                      /\ b # last'.book_id => db'.books[b] = db.books[b]
                /\ db'.borrowed = db.borrowed
                /\ db'.users = db.users
       /\ IsCall("add_book")
             => /\ \A b \in DOMAIN db.books :
                      b \in DOMAIN db'.books /\ db'.books[b] = db.books[b]
                /\ db'.borrowed = db.borrowed
                /\ db'.users = db.users
       /\ \A b \in DOMAIN db.books \cap DOMAIN db'.books :
             db'.books[b].available # db.books[b].available
                => last'.op \in {"borrow_book", "return_book"}]_vars

\* C15 witness: a lent book was given a new title and author, and is still
\* lent.
UpdateAndAddFrameWitness ==
    /\ last.op = "update_book"
    /\ last.book_id \in DOMAIN db.books
    /\ db.books[last.book_id].title \in Titles
    /\ db.books[last.book_id].author \in Authors
    /\ ~db.books[last.book_id].available
    /\ Active(db, last.book_id) # {}
    /\ Cardinality(DOMAIN db.books) = 2

\* C16: get_active_borrowed_books_by_user(u) has one entry for each row of
\* user u with returned_at NULL and no other entry, the latest borrowed_at
\* first.
ActiveBorrowsListed ==
    \A u \in Users :
        LET recs == {r \in DOMAIN db.borrowed : /\ db.borrowed[r].user_id = u
                                                /\ db.borrowed[r].returned_at = NULL}
        IN \A result \in get_active_borrowed_books_by_user(db, u) :
              /\ Len(result) = Cardinality(recs)
              /\ \A r \in recs : \E i \in DOMAIN result :
                    /\ result[i].id = db.borrowed[r].book_id
                    /\ result[i].borrowed_at = db.borrowed[r].borrowed_at
              /\ \A i \in DOMAIN result : \E r \in recs :
                    /\ result[i].id = db.borrowed[r].book_id
                    /\ result[i].borrowed_at = db.borrowed[r].borrowed_at
              /\ \A i, j \in DOMAIN result :
                    i < j => result[i].borrowed_at >= result[j].borrowed_at

\* The store holds exactly one user named admin and each sample book once.
Seeded(d) ==
    /\ Cardinality({u \in DOMAIN d.users : d.users[u].username = admin_username}) = 1
    /\ \A n \in 1..Cardinality(SeedIds) :
          Cardinality({b \in DOMAIN d.books :
                          /\ d.books[b].title = sample_books[n].title
                          /\ d.books[b].author = sample_books[n].author}) = 1

\* C17: every startup run that gets through seed_data and goes on to its
\* route leaves the store with exactly one user named admin and each sample
\* book once, and a startup run on a store that is there changes nothing.
StartupSeedsOnce ==
    [][\A p \in Procs :
          /\ (pc[p] \in {"seed_data", "seed_books"} /\ pc'[p] = args[p].op)
                => Seeded(db')
          /\ (pc[p] = "idle" /\ pc'[p] # "idle" /\ db.exists) => db' = db]_vars

\* C18: a borrow_book or return_book call that returns True changes, besides
\* the flag of its book, exactly one borrowed_books row of that book (the new
\* one, or the one whose returned_at it sets) and removes none; every other
\* book, every other row and the users stay as they were.
BorrowReturnFrame ==
    [][((IsCall("borrow_book") \/ IsCall("return_book")) /\ last'.msg = RetTrue)
          => LET b == last'.book_id
                 changed == {r \in DOMAIN db'.borrowed :
                                r \notin DOMAIN db.borrowed \/ db'.borrowed[r] # db.borrowed[r]}
             IN /\ DOMAIN db'.books = DOMAIN db.books
                /\ \A b2 \in DOMAIN db.books \ {b} : db'.books[b2] = db.books[b2]
                /\ db'.books[b].title = db.books[b].title
                /\ db'.books[b].author = db.books[b].author
                /\ DOMAIN db.borrowed \subseteq DOMAIN db'.borrowed
                /\ Cardinality(changed) = 1
                /\ \A r \in changed :
                      /\ db'.borrowed[r].book_id = b
                      /\ db'.borrowed[r].user_id = last'.user_id
                      /\ IsCall("borrow_book") => r \notin DOMAIN db.borrowed
                      /\ IsCall("return_book") =>
                            /\ r \in DOMAIN db.borrowed
                            /\ db'.borrowed[r] =
                                  [db.borrowed[r] EXCEPT !.returned_at = db'.borrowed[r].returned_at]
                /\ db'.users = db.users]_vars

\* C18 witness: a book was returned for the second time, with its earlier
\* returned row still there, while another book is in the catalog.
BorrowReturnFrameWitness ==
    /\ last.op = "return_book" /\ last.msg = RetTrue
    /\ Cardinality(DOMAIN db.books) = 2
    /\ \E r1, r2 \in RowsOf(db, last.book_id) :
          /\ r1 # r2
          /\ db.borrowed[r1].returned_at # NULL
          /\ db.borrowed[r2].returned_at # NULL

\* C19: add_book adds one book, under an id above every id the table has
\* ever given out (book_seq, which bounds the ids of all books and of all
\* rows' book_id), available, and with no borrowed_books row referencing it.
AddBookFreshId ==
    [][/\ IsCall("add_book")
             => \E id \in DOMAIN db'.books \ DOMAIN db.books :
                   /\ DOMAIN db'.books = DOMAIN db.books \cup {id}
                   /\ id > db.book_seq
                   /\ id = last'.book_id
                   /\ db'.books[id].available
                   /\ RowsOf(db', id) = {}
       /\ db'.book_seq >= db.book_seq
       /\ \A b \in DOMAIN db'.books : b <= db'.book_seq
       /\ \A r \in DOMAIN db'.borrowed : db'.borrowed[r].book_id <= db'.book_seq]_vars

\* C19 witness: a book was added after an earlier one was deleted together
\* with its rows.
AddBookFreshIdWitness ==
    /\ last.op = "add_book"
    /\ last.book_id \in DOMAIN db.books
    /\ \E b \in 1..(last.book_id - 1) : b \notin DOMAIN db.books
    /\ db.borrow_seq > 0
    /\ DOMAIN db.borrowed = {}

\* C20: no step changes or removes a user that is there, and a new user of
\* role admin comes only with seed_data's commit; the users that register
\* creates are members.
RegistrationOnlyMembers ==
    [][/\ \A u \in DOMAIN db.users :
             u \in DOMAIN db'.users /\ db'.users[u] = db.users[u]
       /\ \A u \in DOMAIN db'.users \ DOMAIN db.users :
             IF \E p \in Procs : pc[p] = "seed_books" /\ pc'[p] # pc[p]
             THEN db'.users[u].role = "admin" /\ db'.users[u].username = admin_username
             ELSE db'.users[u].role = "member"]_vars

\* C20 witness: a registered member has logged in, next to the seeded admin.
RegistrationOnlyMembersWitness ==
    /\ last.op = "login" /\ last.msg = MsgWelcome
    /\ last.user_id \in DOMAIN db.users
    /\ db.users[last.user_id].role = "member"
    /\ \E u \in DOMAIN db.users : db.users[u].role = "admin"

====
